---------------------------- MODULE Spec2Model ----------------------------
(***************************************************************************)
(* A small-step model of the tree-walking interpreter of                   *)
(* src/src/interpreter.rs.  The recursive function `interpret` is unfolded *)
(* into a machine with a control register (a term to evaluate under an     *)
(* environment, or a value being returned) and a stack holding one frame   *)
(* per pending Rust call of `interpret`.  Environments, values and terms   *)
(* are plain values, as they are owned values in the Rust code.            *)
(***************************************************************************)
EXTENDS Integers, Sequences, FiniteSets, TLC

VARIABLES program, ctrl, stack, out, status, fault, result

vars == <<program, ctrl, stack, out, status, fault, result>>

(* Largest magnitude of an integer literal of the programs explored. *)
MaxInt == 7

(* Number of nested `interpret` calls the host call stack can hold. *)
MaxStack == 12

-----------------------------------------------------------------------------
(* Terms: types.rs, enum Term.  Location and kind fields are never read    *)
(* by the interpreter and are left out.                                    *)

TInt(n) == [kind |-> "Int", value |-> n]
TStr(s) == [kind |-> "Str", value |-> s]
TBool(b) == [kind |-> "Bool", value |-> b]
TIf(c, t, e) == [kind |-> "If", condition |-> c, then |-> t, otherwise |-> e]
TLet(x, v, n) == [kind |-> "Let", name |-> x, value |-> v, next |-> n]
TBinary(l, o, r) == [kind |-> "Binary", lhs |-> l, op |-> o, rhs |-> r]
TCall(f, as) == [kind |-> "Call", callee |-> f, arguments |-> as]
TFunction(ps, b) == [kind |-> "Function", parameters |-> ps, value |-> b]
TFirst(v) == [kind |-> "First", value |-> v]
TSecond(v) == [kind |-> "Second", value |-> v]
TPrint(v) == [kind |-> "Print", value |-> v]
TTuple(a, b) == [kind |-> "Tuple", first |-> a, second |-> b]
TVar(x) == [kind |-> "Var", text |-> x]

BinaryOp ==
  {"Add", "Sub", "Mul", "Div", "Rem", "Eq", "Neq", "Lt", "Gt", "Lte", "Gte",
   "And", "Or"}

-----------------------------------------------------------------------------
(* f64 numbers.  Every number the explored programs can produce is an      *)
(* integer, a signed zero, an infinity or NaN: literals are integers, and  *)
(* Div and Rem floor their results.                                        *)

Fin(i) == [c |-> "fin", v |-> i]
NZero == [c |-> "nzero", v |-> 0]
PInf == [c |-> "inf", v |-> 1]
NInf == [c |-> "inf", v |-> -1]
NaN == [c |-> "nan", v |-> 0]

IsNaN(a) == a.c = "nan"
IsInf(a) == a.c = "inf"
IsZero(a) == a.c = "nzero" \/ (a.c = "fin" /\ a.v = 0)
Sign(a) == IF a.c = "nzero" \/ (a.c \in {"fin", "inf"} /\ a.v < 0) THEN -1 ELSE 1
MkZero(s) == IF s < 0 THEN NZero ELSE Fin(0)
MkInf(s) == IF s < 0 THEN NInf ELSE PInf
Abs(i) == IF i < 0 THEN -i ELSE i

FNeg(a) ==
  CASE a.c = "nan" -> NaN
    [] a.c = "inf" -> MkInf(-a.v)
    [] a.c = "nzero" -> Fin(0)
    [] OTHER -> IF a.v = 0 THEN NZero ELSE Fin(-a.v)

FAdd(a, b) ==
  IF IsNaN(a) \/ IsNaN(b) THEN NaN
  ELSE IF IsInf(a) THEN (IF IsInf(b) /\ b.v # a.v THEN NaN ELSE a)
  ELSE IF IsInf(b) THEN b
  ELSE IF IsZero(a) /\ IsZero(b)
       THEN (IF a.c = "nzero" /\ b.c = "nzero" THEN NZero ELSE Fin(0))
  ELSE Fin(a.v + b.v)

FSub(a, b) == FAdd(a, FNeg(b))

FMul(a, b) ==
  IF IsNaN(a) \/ IsNaN(b) THEN NaN
  ELSE IF (IsInf(a) /\ IsZero(b)) \/ (IsInf(b) /\ IsZero(a)) THEN NaN
  ELSE IF IsInf(a) \/ IsInf(b) THEN MkInf(Sign(a) * Sign(b))
  ELSE IF IsZero(a) \/ IsZero(b) THEN MkZero(Sign(a) * Sign(b))
  ELSE Fin(a.v * b.v)

(* a quotient rounded toward zero instead of toward negative infinity *)
FloorQuot_trunc(l, r) ==
  (IF (l < 0) = (r < 0) THEN 1 ELSE -1) * (Abs(l) \div Abs(r))

(* floor of the real quotient l / r of two non-zero integers: the literals *)
(* are far below 2^26, so rounding the f64 quotient never reaches the next *)
(* integer.                                                                *)
FloorQuot(l, r) == IF r > 0 THEN l \div r ELSE (-l) \div (-r)

(* (left_val / right_val).floor() *)
FDivFloor(a, b) ==
  IF IsNaN(a) \/ IsNaN(b) THEN NaN
  ELSE IF (IsInf(a) /\ IsInf(b)) \/ (IsZero(a) /\ IsZero(b)) THEN NaN
  ELSE IF IsInf(a) \/ IsZero(b) THEN MkInf(Sign(a) * Sign(b))
  ELSE IF IsInf(b) \/ IsZero(a) THEN MkZero(Sign(a) * Sign(b))
  ELSE Fin(FloorQuot(a.v, b.v))

(* (left_val % right_val).floor(): the remainder has the dividend's sign *)
FRemFloor(a, b) ==
  IF IsNaN(a) \/ IsNaN(b) \/ IsInf(a) \/ IsZero(b) THEN NaN
  ELSE IF IsInf(b) \/ IsZero(a) THEN a
  ELSE LET m == Abs(a.v) % Abs(b.v) IN
       IF m = 0 THEN MkZero(Sign(a)) ELSE Fin(Sign(a) * m)

FLt(a, b) ==
  /\ ~IsNaN(a)
  /\ ~IsNaN(b)
  /\ IF IsInf(a) THEN a.v < 0 /\ ~(IsInf(b) /\ b.v < 0)
     ELSE IF IsInf(b) THEN b.v > 0
     ELSE a.v < b.v

FLte(a, b) == ~IsNaN(a) /\ ~IsNaN(b) /\ ~FLt(b, a)

(* (l - r).abs() < f64::EPSILON: the difference of two distinct integers is *)
(* at least 1, and inf - inf is NaN, which compares false.                  *)
FNear(a, b) == IsZero(FSub(a, b))

(* f64::to_string *)
NumToString(a) ==
  CASE a.c = "nan" -> "NaN"
    [] a.c = "inf" -> IF a.v < 0 THEN "-inf" ELSE "inf"
    [] a.c = "nzero" -> "-0"
    [] OTHER -> ToString(a.v)

-----------------------------------------------------------------------------
(* Values: interpreter.rs, enum Value and struct Closure. *)

VBoolean(b) == [kind |-> "Boolean", b |-> b]
VString(s) == [kind |-> "String", s |-> s]
VNumber(n) == [kind |-> "Number", n |-> n]
VClosure(b, ps, e) == [kind |-> "Closure", body |-> b, parameters |-> ps, env |-> e]
VTuple(a, b) == [kind |-> "Tuple", fst |-> a, snd |-> b]

(* Faults: the payload of the panic that ends the process. *)
TypeMismatch(t) == [kind |-> "TypeMismatch", expected |-> t]
UndefinedVariable(x) == [kind |-> "UndefinedVariable", name |-> x]
ArityMismatch(e, g) == [kind |-> "ArityMismatch", expected |-> e, got |-> g]
FaultKinds == {"TypeMismatch", "UndefinedVariable", "ArityMismatch"}
IsFault(x) == x.kind \in FaultKinds

NoFault == [kind |-> "None"]
NoValue == [kind |-> "None"]

(* Environments: struct Env, a map from names to values. *)
EmptyEnv == [x \in {} |-> NoValue]

(* an insert that keeps the binding a name already has *)
insert_keep(e, name, v) ==
  [x \in DOMAIN e \cup {name} |-> IF x \in DOMAIN e THEN e[x] ELSE v]

(* new_env.objects.insert(name, value) *)
insert(e, name, v) == [x \in DOMAIN e \cup {name} |-> IF x = name THEN v ELSE e[x]]

(* Env::clone_env: a new map with the same bindings *)
clone_env(e) == [x \in DOMAIN e |-> e[x]]

(* env.objects.get(text), then clone or panic *)
lookup(e, text) == IF text \in DOMAIN e THEN e[text] ELSE UndefinedVariable(text)

-----------------------------------------------------------------------------
(* The type-checked accessors.  Each yields the payload or the fault of    *)
(* its type_mismatch call.                                                 *)

assert_int(v) == IF v.kind = "Number" THEN v ELSE TypeMismatch("int")
assert_tuple(v) == IF v.kind = "Tuple" THEN v ELSE TypeMismatch("tuple")
assert_closure(v) == IF v.kind = "Closure" THEN v ELSE TypeMismatch("closure")
assert_bool(v) == IF v.kind = "Boolean" THEN v ELSE TypeMismatch("closure")

cast_to_string(v) ==
  CASE v.kind = "Number" -> VString(NumToString(v.n))
    [] v.kind = "String" -> v
    [] OTHER -> TypeMismatch("string or int")

is_equal(l, r) ==
  CASE l.kind = "Number" /\ r.kind = "Number" -> VBoolean(FNear(l.n, r.n))
    [] l.kind = "String" /\ r.kind = "String" -> VBoolean(l.s = r.s)
    [] l.kind = "Boolean" /\ r.kind = "Boolean" -> VBoolean(l.b = r.b)
    [] OTHER -> TypeMismatch("number or string or boolean")

(* let left_val = assert_int(left); let right_val = assert_int(right);    *)
(* the two payloads, or the fault of the first call that panics.           *)
assert_ints(left, right) ==
  LET left_val == assert_int(left)
      right_val == assert_int(right)
  IN  IF IsFault(left_val) THEN left_val
      ELSE IF IsFault(right_val) THEN right_val
      ELSE [kind |-> "Operands", left_val |-> left_val.n, right_val |-> right_val.n]

interpret_binary(left, right, op) ==
  CASE op = "Add" ->
         IF left.kind = "Number" /\ right.kind = "Number"
         THEN VNumber(FAdd(left.n, right.n))
         ELSE LET left_val == cast_to_string(left)
                  right_val == cast_to_string(right)
              IN  IF IsFault(left_val) THEN left_val
                  ELSE IF IsFault(right_val) THEN right_val
                  ELSE VString(left_val.s \o right_val.s)
    [] op = "Eq" -> is_equal(left, right)
    [] op = "Neq" ->
         LET value == is_equal(left, right)
         IN  IF IsFault(value) THEN value ELSE VBoolean(~value.b)
    [] op = "Sub" ->
         LET a == assert_ints(left, right)
         IN  IF IsFault(a) THEN a ELSE VNumber(FSub(a.left_val, a.right_val))
    [] op = "Mul" ->
         LET a == assert_ints(left, right)
         IN  IF IsFault(a) THEN a ELSE VNumber(FMul(a.left_val, a.right_val))
    [] op = "Div" ->
         LET a == assert_ints(left, right)
         IN  IF IsFault(a) THEN a ELSE VNumber(FDivFloor(a.left_val, a.right_val))
    [] op = "Rem" ->
         LET a == assert_ints(left, right)
         IN  IF IsFault(a) THEN a ELSE VNumber(FRemFloor(a.left_val, a.right_val))
    [] op = "Lt" ->
         LET a == assert_ints(left, right)
         IN  IF IsFault(a) THEN a ELSE VBoolean(FLt(a.left_val, a.right_val))
    [] op = "Gt" ->
         LET a == assert_ints(left, right)
         IN  IF IsFault(a) THEN a ELSE VBoolean(FLt(a.right_val, a.left_val))
    [] op = "Lte" ->
         LET a == assert_ints(left, right)
         IN  IF IsFault(a) THEN a ELSE VBoolean(FLte(a.left_val, a.right_val))
    [] op = "Gte" ->
         LET a == assert_ints(left, right)
         IN  IF IsFault(a) THEN a ELSE VBoolean(FLte(a.right_val, a.left_val))
    [] op = "And" ->
         LET left_val == assert_bool(left)
             right_val == assert_bool(right)
         IN  IF IsFault(left_val) THEN left_val
             ELSE IF IsFault(right_val) THEN right_val
             ELSE VBoolean(left_val.b /\ right_val.b)
    [] op = "Or" ->
         LET left_val == assert_bool(left)
             right_val == assert_bool(right)
         IN  IF IsFault(left_val) THEN left_val
             ELSE IF IsFault(right_val) THEN right_val
             ELSE VBoolean(left_val.b \/ right_val.b)

(* a rendering that drops the parentheses of a tuple *)
RECURSIVE show_value_flat(_)
show_value_flat(value) ==
  CASE value.kind = "Number" -> NumToString(value.n)
    [] value.kind = "Boolean" -> IF value.b THEN "true" ELSE "false"
    [] value.kind = "String" -> value.s
    [] value.kind = "Closure" -> "<#closure>"
    [] value.kind = "Tuple" ->
         show_value_flat(value.fst) \o ", " \o show_value_flat(value.snd)

RECURSIVE show_value(_)
show_value(value) ==
  CASE value.kind = "Number" -> NumToString(value.n)
    [] value.kind = "Boolean" -> IF value.b THEN "true" ELSE "false"
    [] value.kind = "String" -> value.s
    [] value.kind = "Closure" -> "<#closure>"
    [] value.kind = "Tuple" ->
         "(" \o show_value(value.fst) \o ", " \o show_value(value.snd) \o ")"

-----------------------------------------------------------------------------
(* The machine.  ctrl is the call of `interpret` being entered (a term and *)
(* the environment passed to it), the value a call has just returned, or   *)
(* halt once the process has ended.  Each frame of stack is one pending    *)
(* call of `interpret` with the locals it still needs; the top is last.    *)

Halt == [tag |-> "halt"]
Eval(t, e) == [tag |-> "eval", term |-> t, env |-> e]
Ret(v) == [tag |-> "ret", value |-> v]

Top == stack[Len(stack)]
Pop == SubSeq(stack, 1, Len(stack) - 1)

Evaluating(k) == status = "running" /\ ctrl.tag = "eval" /\ ctrl.term.kind = k
Returning(k) == status = "running" /\ ctrl.tag = "ret" /\ stack # <<>> /\ Top.k = k

(* a fault recorded while evaluation goes on with a dummy value *)
Panic_resume(f) ==
  /\ fault' = f
  /\ ctrl' = Ret(VBoolean(FALSE))
  /\ stack' = IF ctrl.tag = "ret" THEN Pop ELSE stack
  /\ UNCHANGED <<program, out, status, result>>

(* panic!: the process ends, every pending call is abandoned *)
Panic(f) ==
  /\ status' = "fault"
  /\ fault' = f
  /\ ctrl' = Halt
  /\ stack' = <<>>
  /\ UNCHANGED <<program, out, result>>

(* the host call stack is exhausted: the process is aborted *)
StackOverflow ==
  /\ status' = "overflow"
  /\ ctrl' = Halt
  /\ stack' = <<>>
  /\ UNCHANGED <<program, out, fault, result>>

(* a nested call interpret(t, e) made by a call that is entered now *)
Descend(fr, t, e) ==
  IF Len(stack) >= MaxStack THEN StackOverflow
  ELSE /\ stack' = Append(stack, fr)
       /\ ctrl' = Eval(t, e)
       /\ UNCHANGED <<program, out, status, fault, result>>

(* the next nested call interpret(t, e) of the call on top of the stack *)
Continue(fr, t, e) ==
  /\ stack' = Append(Pop, fr)
  /\ ctrl' = Eval(t, e)
  /\ UNCHANGED <<program, out, status, fault, result>>

(* a call entered now returns v without a nested call *)
Give(v) ==
  /\ ctrl' = Ret(v)
  /\ UNCHANGED <<program, stack, out, status, fault, result>>

(* the call on top of the stack returns v *)
Yield(v) ==
  /\ stack' = Pop
  /\ ctrl' = Ret(v)
  /\ UNCHANGED <<program, out, status, fault, result>>

EvalStr == Evaluating("Str") /\ Give(VString(ctrl.term.value))

EvalBool == Evaluating("Bool") /\ Give(VBoolean(ctrl.term.value))

EvalInt == Evaluating("Int") /\ Give(VNumber(Fin(ctrl.term.value)))

EvalIf ==
  /\ Evaluating("If")
  /\ Descend([k |-> "IfCond", then |-> ctrl.term.then,
              otherwise |-> ctrl.term.otherwise, env |-> ctrl.env],
             ctrl.term.condition, ctrl.env)

IfCond ==
  /\ Returning("IfCond")
  /\ LET boolean == assert_bool(ctrl.value)
     IN  IF IsFault(boolean) THEN Panic(boolean)
         ELSE IF boolean.b
              THEN Continue([k |-> "IfBranch"], Top.then, Top.env)
              ELSE Continue([k |-> "IfBranch"], Top.otherwise, Top.env)

IfBranch == Returning("IfBranch") /\ Yield(ctrl.value)

EvalTuple ==
  /\ Evaluating("Tuple")
  /\ Descend([k |-> "TupleFst", second |-> ctrl.term.second, env |-> ctrl.env],
             ctrl.term.first, ctrl.env)

TupleFst ==
  /\ Returning("TupleFst")
  /\ Continue([k |-> "TupleSnd", fst |-> ctrl.value], Top.second, Top.env)

TupleSnd == Returning("TupleSnd") /\ Yield(VTuple(Top.fst, ctrl.value))

EvalFirst == Evaluating("First") /\ Descend([k |-> "First"], ctrl.term.value, ctrl.env)

FirstK ==
  /\ Returning("First")
  /\ LET fst == assert_tuple(ctrl.value)
     IN  IF IsFault(fst) THEN Panic(fst) ELSE Yield(fst.fst)

EvalSecond == Evaluating("Second") /\ Descend([k |-> "Second"], ctrl.term.value, ctrl.env)

SecondK ==
  /\ Returning("Second")
  /\ LET fst == assert_tuple(ctrl.value)
     IN  IF IsFault(fst) THEN Panic(fst) ELSE Yield(fst.snd)

EvalBinary ==
  /\ Evaluating("Binary")
  /\ Descend([k |-> "BinaryLhs", op |-> ctrl.term.op, rhs |-> ctrl.term.rhs,
              env |-> ctrl.env],
             ctrl.term.lhs, ctrl.env)

(* `and` and `or` that skip the right operand when the left one decides *)
BinaryLhs_shortcircuit ==
  /\ Returning("BinaryLhs")
  /\ IF \/ (Top.op = "And" /\ ctrl.value = VBoolean(FALSE))
        \/ (Top.op = "Or" /\ ctrl.value = VBoolean(TRUE))
     THEN Yield(ctrl.value)
     ELSE Continue([k |-> "BinaryRhs", op |-> Top.op, left |-> ctrl.value],
                   Top.rhs, Top.env)

BinaryLhs ==
  /\ Returning("BinaryLhs")
  /\ Continue([k |-> "BinaryRhs", op |-> Top.op, left |-> ctrl.value],
              Top.rhs, Top.env)

BinaryRhs ==
  /\ Returning("BinaryRhs")
  /\ LET value == interpret_binary(Top.left, ctrl.value, Top.op)
     IN  IF IsFault(value) THEN Panic(value) ELSE Yield(value)

EvalPrint == Evaluating("Print") /\ Descend([k |-> "Print"], ctrl.term.value, ctrl.env)

PrintK ==
  /\ Returning("Print")
  /\ out' = Append(out, show_value(ctrl.value))
  /\ stack' = Pop
  /\ ctrl' = Ret(ctrl.value)
  /\ UNCHANGED <<program, status, fault, result>>

EvalVar ==
  /\ Evaluating("Var")
  /\ LET value == lookup(ctrl.env, ctrl.term.text)
     IN  IF IsFault(value) THEN Panic(value) ELSE Give(value)

(* a let that binds the name, to a placeholder, before its value term runs *)
EvalLet_selfbound ==
  /\ Evaluating("Let")
  /\ LET new_env == insert(clone_env(ctrl.env), ctrl.term.name, VNumber(Fin(0)))
     IN  Descend([k |-> "LetValue", name |-> ctrl.term.name,
                  next |-> ctrl.term.next, new_env |-> new_env],
                 ctrl.term.value, new_env)

EvalLet ==
  /\ Evaluating("Let")
  /\ LET new_env == clone_env(ctrl.env)
     IN  Descend([k |-> "LetValue", name |-> ctrl.term.name,
                  next |-> ctrl.term.next, new_env |-> new_env],
                 ctrl.term.value, ctrl.env)

LetValue ==
  /\ Returning("LetValue")
  /\ LET new_env == insert(Top.new_env, Top.name, ctrl.value)
     IN  Continue([k |-> "LetBody"], Top.next, new_env)

LetBody == Returning("LetBody") /\ Yield(ctrl.value)

EvalCall ==
  /\ Evaluating("Call")
  /\ Descend([k |-> "CallCallee", arguments |-> ctrl.term.arguments,
              env |-> ctrl.env],
             ctrl.term.callee, ctrl.env)

(* a body run as a tail call: the calling frame is dropped, not kept *)
CallNext_tail(closure, arguments, i, function_env, env) ==
  IF i <= Len(arguments)
  THEN Continue([k |-> "CallArg", closure |-> closure, arguments |-> arguments,
                 i |-> i, function_env |-> function_env, env |-> env],
                arguments[i], env)
  ELSE /\ stack' = Pop
       /\ ctrl' = Eval(closure.body, function_env)
       /\ UNCHANGED <<program, out, status, fault, result>>

(* the arguments evaluated under env, one nested call each, then the body *)
CallNext(closure, arguments, i, function_env, env) ==
  IF i <= Len(arguments)
  THEN Continue([k |-> "CallArg", closure |-> closure, arguments |-> arguments,
                 i |-> i, function_env |-> function_env, env |-> env],
                arguments[i], env)
  ELSE Continue([k |-> "CallBody"], closure.body, function_env)

(* dynamic scoping: the body's environment is built from the caller's *)
CallCallee_dynamic ==
  /\ Returning("CallCallee")
  /\ LET closure == assert_closure(ctrl.value)
         arguments == Top.arguments
     IN  IF IsFault(closure) THEN Panic(closure)
         ELSE IF Len(closure.parameters) # Len(arguments)
              THEN Panic(ArityMismatch(Len(closure.parameters), Len(arguments)))
              ELSE CallNext(closure, arguments, 1, clone_env(Top.env), Top.env)

(* the arity message with its two numbers exchanged *)
CallCallee_swapped ==
  /\ Returning("CallCallee")
  /\ LET closure == assert_closure(ctrl.value)
         arguments == Top.arguments
     IN  IF IsFault(closure) THEN Panic(closure)
         ELSE IF Len(closure.parameters) # Len(arguments)
              THEN Panic(ArityMismatch(Len(arguments), Len(closure.parameters)))
              ELSE CallNext(closure, arguments, 1, clone_env(closure.env), Top.env)

CallCallee ==
  /\ Returning("CallCallee")
  /\ LET closure == assert_closure(ctrl.value)
         arguments == Top.arguments
     IN  IF IsFault(closure) THEN Panic(closure)
         ELSE IF Len(closure.parameters) # Len(arguments)
              THEN Panic(ArityMismatch(Len(closure.parameters), Len(arguments)))
              ELSE CallNext(closure, arguments, 1, clone_env(closure.env), Top.env)

CallArg ==
  /\ Returning("CallArg")
  /\ LET function_env ==
           insert(Top.function_env, Top.closure.parameters[Top.i], ctrl.value)
     IN  CallNext(Top.closure, Top.arguments, Top.i + 1, function_env, Top.env)

CallBody == Returning("CallBody") /\ Yield(ctrl.value)

EvalFunction ==
  /\ Evaluating("Function")
  /\ Give(VClosure(ctrl.term.value, ctrl.term.parameters, ctrl.env))

(* interpret_file's call of interpret has returned: main reports the value *)
Finish ==
  /\ status = "running"
  /\ ctrl.tag = "ret"
  /\ stack = <<>>
  /\ status' = "done"
  /\ result' = ctrl.value
  /\ ctrl' = Halt
  /\ UNCHANGED <<program, stack, out, fault>>

-----------------------------------------------------------------------------
(* The programs explored. *)

Names == {"x", "y", "f"}

Ints == {TInt(n) : n \in -MaxInt .. MaxInt}

Id == TFunction(<<"x">>, TVar("x"))

(* one term of each kind of value, and a second one of most *)
Atoms ==
  {TInt(0), TInt(1), TBool(TRUE), TBool(FALSE), TStr("a"), TStr("1"),
   TTuple(TInt(1), TStr("a")), Id}

(* terms whose values are the infinities, NaN and the negative zero *)
Specials ==
  {TBinary(TInt(1), "Div", TInt(0)), TBinary(TInt(-1), "Div", TInt(0)),
   TBinary(TInt(0), "Div", TInt(0)), TBinary(TInt(0), "Mul", TInt(-1)),
   TInt(0), TInt(2), TInt(-2)}

ArithPrograms == {TBinary(l, o, r) : l \in Ints, r \in Ints, o \in BinaryOp}

MixedProgram(l, o, r) == TBinary(TPrint(l), o, TPrint(r))
MixedPrograms == {MixedProgram(l, o, r) : l \in Atoms, r \in Atoms, o \in BinaryOp}

SpecialPrograms ==
  {TPrint(TBinary(a, o, b)) : a \in Specials, b \in Specials, o \in BinaryOp}

PrintPrograms ==
  {TPrint(v) : v \in Atoms \cup Specials}
    \cup {TPrint(TTuple(a, b)) : a \in Atoms, b \in Atoms}
    \cup {TPrint(TTuple(TPrint(a), TPrint(TPrint(b)))) : a \in Atoms, b \in Atoms}

IfProgram(c) == TIf(c, TPrint(TInt(1)), TPrint(TInt(2)))
IfPrograms == {IfProgram(c) : c \in Atoms \cup {TPrint(a) : a \in Atoms}}

ProjPrograms ==
  {TFirst(v) : v \in Atoms} \cup {TSecond(v) : v \in Atoms}
    \cup {TFirst(TTuple(a, b)) : a \in Atoms, b \in Atoms}
    \cup {TSecond(TTuple(a, b)) : a \in Atoms, b \in Atoms}

(* let y = a in let f = fn() => y in let y = b in f() *)
ScopeProgram(a, b) ==
  TLet("y", a, TLet("f", TFunction(<<>>, TVar("y")),
                    TLet("y", b, TCall(TVar("f"), <<>>))))

(* let y = a in let f = fn(x) => (x, y) in let y = b in f(y) *)
ScopeArgProgram(a, b) ==
  TLet("y", a, TLet("f", TFunction(<<"x">>, TTuple(TVar("x"), TVar("y"))),
                    TLet("y", b, TCall(TVar("f"), <<TVar("y")>>))))

(* let f = fn(y) => fn() => y in let x = f(a) in let y = b in x() *)
ScopeReturnedProgram(a, b) ==
  TLet("f", TFunction(<<"y">>, TFunction(<<>>, TVar("y"))),
       TLet("x", TCall(TVar("f"), <<a>>), TLet("y", b, TCall(TVar("x"), <<>>))))

(* let f = fn() => y in let y = b in f() *)
ScopeFreeProgram(b) ==
  TLet("f", TFunction(<<>>, TVar("y")), TLet("y", b, TCall(TVar("f"), <<>>)))

ScopePrograms ==
  {ScopeProgram(a, b) : a \in Atoms, b \in Atoms}
    \cup {ScopeArgProgram(a, b) : a \in Atoms, b \in Atoms}
    \cup {ScopeReturnedProgram(a, b) : a \in Atoms, b \in Atoms}
    \cup {ScopeFreeProgram(b) : b \in Atoms}

(* let x = x in x *)
SelfProgram(x) == TLet(x, TVar(x), TVar(x))

(* let x = a in let x = x in x *)
SelfOuterProgram(x, a) == TLet(x, a, SelfProgram(x))

(* let x = fn() => x() in x() *)
SelfCallProgram(x) ==
  TLet(x, TFunction(<<>>, TCall(TVar(x), <<>>)), TCall(TVar(x), <<>>))

SelfPrograms ==
  {SelfProgram(x) : x \in Names}
    \cup {SelfOuterProgram(x, a) : x \in Names, a \in Atoms}
    \cup {SelfCallProgram(x) : x \in Names}

Callees ==
  {TFunction(<<>>, TInt(1)), Id,
   TFunction(<<"x", "y">>, TTuple(TVar("x"), TVar("y"))),
   TFunction(<<"x", "x", "y">>, TTuple(TVar("x"), TVar("y"))),
   TPrint(Id), TInt(1), TPrint(TBool(TRUE))}

Args == {TPrint(TInt(1)), TPrint(TStr("a"))}
ArgLists ==
  {<<>>} \cup {<<a>> : a \in Args} \cup {<<a, b>> : a \in Args, b \in Args}
    \cup {<<a, b, c>> : a \in Args, b \in Args, c \in Args}

CallPrograms == {TCall(f, as) : f \in Callees, as \in ArgLists}

(* let x = a in let x = b in x *)
ShadowProgram(a, b) == TLet("x", a, TLet("x", b, TVar("x")))

(* let x = a in (let x = b in x, x) *)
ShadowThenProgram(a, b) == TLet("x", a, TTuple(TLet("x", b, TVar("x")), TVar("x")))

(* let x = a in (x, let x = b in x) *)
ShadowAfterProgram(a, b) == TLet("x", a, TTuple(TVar("x"), TLet("x", b, TVar("x"))))

(* let x = a in let y = b in (x, y) *)
ExtendProgram(a, b) == TLet("x", a, TLet("y", b, TTuple(TVar("x"), TVar("y"))))

ShadowPrograms ==
  {ShadowProgram(a, b) : a \in Atoms, b \in Atoms}
    \cup {ShadowThenProgram(a, b) : a \in Atoms, b \in Atoms}
    \cup {ShadowAfterProgram(a, b) : a \in Atoms, b \in Atoms}
    \cup {ExtendProgram(a, b) : a \in Atoms, b \in Atoms}

(* one faulting term for each place of the interpreter that panics *)
Faulty ==
  {TFirst(TInt(2)), TSecond(TStr("a")), TVar("z"), TCall(Id, <<>>),
   TCall(TInt(1), <<>>), TBinary(TBool(TRUE), "Sub", TInt(1)),
   TIf(TInt(1), TInt(2), TInt(3)), TBinary(TInt(1), "Eq", TStr("1")),
   TBinary(TBool(TRUE), "Add", TInt(1)), TBinary(TInt(1), "And", TBool(TRUE))}

(* (print(1), (F, print(3))) *)
FaultInTuple(F) == TTuple(TPrint(TInt(1)), TTuple(F, TPrint(TInt(3))))

(* let x = print(F) in print(3) *)
FaultInLet(F) == TLet("x", TPrint(F), TPrint(TInt(3)))

(* print(1) + (F + print(3)) *)
FaultInBinary(F) ==
  TBinary(TPrint(TInt(1)), "Add", TBinary(F, "Add", TPrint(TInt(3))))

(* (fn(x, y) => print(4))(print(1), F) *)
FaultInArg(F) ==
  TCall(TFunction(<<"x", "y">>, TPrint(TInt(4))), <<TPrint(TInt(1)), F>>)

(* if F then print(1) else print(2) *)
FaultInIf(F) == TIf(F, TPrint(TInt(1)), TPrint(TInt(2)))

(* print((print(2), first(F))) *)
FaultInFirst(F) == TPrint(TTuple(TPrint(TInt(2)), TFirst(F)))

FaultPrograms ==
  {FaultInTuple(F) : F \in Faulty} \cup {FaultInLet(F) : F \in Faulty}
    \cup {FaultInBinary(F) : F \in Faulty} \cup {FaultInArg(F) : F \in Faulty}
    \cup {FaultInIf(F) : F \in Faulty} \cup {FaultInFirst(F) : F \in Faulty}

(* (fn(x) => x(x))(fn(x) => x(x)) *)
SelfApply == TFunction(<<"x">>, TCall(TVar("x"), <<TVar("x")>>))
Omega == TCall(SelfApply, <<SelfApply>>)

(* let f = fn(f, x) => if x == 0 then "done" else f(f, x - 1) in f(f, n) *)
Countdown(n) ==
  TLet("f",
       TFunction(<<"f", "x">>,
                 TIf(TBinary(TVar("x"), "Eq", TInt(0)), TStr("done"),
                     TCall(TVar("f"),
                           <<TVar("f"), TBinary(TVar("x"), "Sub", TInt(1))>>))),
       TCall(TVar("f"), <<TVar("f"), TInt(n)>>))

LoopPrograms == {Omega} \cup {Countdown(n) : n \in 0 .. MaxInt}

Programs ==
  Ints \cup Atoms \cup ArithPrograms \cup MixedPrograms \cup SpecialPrograms
    \cup PrintPrograms \cup IfPrograms \cup ProjPrograms \cup ScopePrograms
    \cup SelfPrograms \cup CallPrograms \cup ShadowPrograms \cup FaultPrograms
    \cup LoopPrograms

Init ==
  /\ program \in Programs
  /\ ctrl = Eval(program, EmptyEnv)
  /\ stack = <<>>
  /\ out = <<>>
  /\ status = "running"
  /\ fault = NoFault
  /\ result = NoValue

Next ==
  \/ EvalStr
  \/ EvalBool
  \/ EvalInt
  \/ EvalIf
  \/ IfCond
  \/ IfBranch
  \/ EvalTuple
  \/ TupleFst
  \/ TupleSnd
  \/ EvalFirst
  \/ FirstK
  \/ EvalSecond
  \/ SecondK
  \/ EvalBinary
  \/ BinaryLhs
  \/ BinaryRhs
  \/ EvalPrint
  \/ PrintK
  \/ EvalVar
  \/ EvalLet
  \/ LetValue
  \/ LetBody
  \/ EvalCall
  \/ CallCallee
  \/ CallArg
  \/ CallBody
  \/ EvalFunction
  \/ Finish

Spec == Init /\ [][Next]_vars

(* The evaluator is one synchronous thread: it takes its next step as long *)
(* as one exists.                                                          *)
FairSpec == Spec /\ WF_vars(Next)

-----------------------------------------------------------------------------
(* What the claims are stated with. *)

Halted == status # "running"

(* v is the value of the atom t, whatever environment a closure captured *)
RECURSIVE IsValueOf(_, _)
IsValueOf(v, t) ==
  CASE t.kind = "Int" -> v = VNumber(Fin(t.value))
    [] t.kind = "Bool" -> v = VBoolean(t.value)
    [] t.kind = "Str" -> v = VString(t.value)
    [] t.kind = "Tuple" ->
         v.kind = "Tuple" /\ IsValueOf(v.fst, t.first) /\ IsValueOf(v.snd, t.second)
    [] t.kind = "Function" ->
         v.kind = "Closure" /\ v.body = t.value /\ v.parameters = t.parameters

(* the line print writes for the value of each atom *)
AtomText(t) ==
  CASE t = TInt(0) -> "0"
    [] t = TInt(1) -> "1"
    [] t = TBool(TRUE) -> "true"
    [] t = TBool(FALSE) -> "false"
    [] t = TStr("a") -> "a"
    [] t = TStr("1") -> "1"
    [] t = TTuple(TInt(1), TStr("a")) -> "(1, a)"
    [] t = Id -> "<#closure>"

IsPair(v, a, b) == v.kind = "Tuple" /\ IsValueOf(v.fst, a) /\ IsValueOf(v.snd, b)

(* C1: a closure's body sees the bindings of the environment captured when *)
(* its function literal was evaluated, plus its parameters, and never the  *)
(* caller's: `let y = a in let f = fn() => y in let y = b in f()` is a,    *)
(* also when the closure takes the caller's y as its argument, or was      *)
(* returned from another function; a variable bound only at the call site  *)
(* is undefined in the body.                                               *)
C1_LexicalScoping ==
  /\ \A a \in Atoms, b \in Atoms :
       /\ (program = ScopeProgram(a, b) /\ Halted)
            => (status = "done" /\ IsValueOf(result, a))
       /\ (program = ScopeArgProgram(a, b) /\ Halted)
            => (status = "done" /\ IsPair(result, b, a))
       /\ (program = ScopeReturnedProgram(a, b) /\ Halted)
            => (status = "done" /\ IsValueOf(result, a))
  /\ \A b \in Atoms :
       (program = ScopeFreeProgram(b) /\ Halted)
         => (status = "fault" /\ fault = UndefinedVariable("y"))

C1_Witness ==
  /\ program = ScopeProgram(TInt(0), TInt(1))
  /\ status = "done"
  /\ result = VNumber(Fin(0))

(* C2 (safety part): `let x = x in x` with no outer x ends with the fault  *)
(* UndefinedVariable(x), returns no value, prints nothing and nests no     *)
(* call below the let's value term; with an outer x the value term sees    *)
(* the outer binding; a function bound by a let does not see its own name. *)
C2_Safe ==
  /\ \A x \in Names :
       /\ program = SelfProgram(x)
            => /\ Len(stack) <= 1
               /\ out = <<>>
               /\ result = NoValue
               /\ Halted => (status = "fault" /\ fault = UndefinedVariable(x))
       /\ (program = SelfCallProgram(x) /\ Halted)
            => (status = "fault" /\ fault = UndefinedVariable(x))
       /\ \A a \in Atoms :
            (program = SelfOuterProgram(x, a) /\ Halted)
              => (status = "done" /\ IsValueOf(result, a))

(* C2: a let evaluates its value term under the environment without the   *)
(* new binding: `let x = x in x` always reaches the fault                  *)
(* UndefinedVariable(x), and never loops or yields a value.                *)
C2_LetNoSelfReference ==
  /\ []C2_Safe
  /\ \A x \in Names :
       [](program = SelfProgram(x)
            => <>(status = "fault" /\ fault = UndefinedVariable(x)))

C2_Witness ==
  /\ program = SelfProgram("x")
  /\ status = "fault"
  /\ fault = UndefinedVariable("x")

(* C3: for every operator, `and` and `or` included, and whatever the left  *)
(* operand is, `print(l) op print(r)` prints l and then r: the output is   *)
(* always a prefix of the two lines and is both lines once evaluation has  *)
(* ended.                                                                  *)
C3_NoShortCircuit ==
  \A l \in Atoms, r \in Atoms, o \in BinaryOp :
    program = MixedProgram(l, o, r)
      => /\ out \in {<<>>, <<AtomText(l)>>, <<AtomText(l), AtomText(r)>>}
         /\ Halted => out = <<AtomText(l), AtomText(r)>>

C3_Witness ==
  /\ program = MixedProgram(TBool(FALSE), "And", TBool(TRUE))
  /\ status = "done"
  /\ result = VBoolean(FALSE)
  /\ out = <<"false", "true">>

(* the output a program of FaultPrograms has written when its fault F is raised *)
FaultOutput(F) ==
  CASE program = FaultInTuple(F) -> <<"1">>
    [] program = FaultInLet(F) -> <<>>
    [] program = FaultInBinary(F) -> <<"1">>
    [] program = FaultInArg(F) -> <<"1">>
    [] program = FaultInIf(F) -> <<>>
    [] program = FaultInFirst(F) -> <<"2">>
    [] OTHER -> out

(* C4: once a fault is raised the process has ended: it is one of the      *)
(* three kinds, no call is pending, no value is returned, and no step      *)
(* follows, so the output stays what the sub-terms evaluated before the    *)
(* fault printed.                                                          *)
C4_FaultAborts ==
  /\ [](fault # NoFault
          => /\ fault.kind \in FaultKinds
             /\ status = "fault"
             /\ result = NoValue
             /\ stack = <<>>
             /\ ctrl = Halt
             /\ \A F \in Faulty : out = FaultOutput(F))
  /\ [](status = "done" => fault = NoFault /\ result # NoValue)
  /\ [][fault # NoFault => UNCHANGED vars]_vars

C4_Witness ==
  /\ program = FaultInTuple(TVar("z"))
  /\ status = "fault"
  /\ fault = UndefinedVariable("z")
  /\ out = <<"1">>

(* the number of parameters of the closure a callee of Callees yields, -1 if none *)
ParamCount(f) ==
  CASE f.kind = "Function" -> Len(f.parameters)
    [] f = TPrint(Id) -> 1
    [] OTHER -> -1

(* C5: a call with m arguments of a closure with n # m parameters faults   *)
(* with ArityMismatch(n, m) after the callee was evaluated (its print is   *)
(* in the output) and before any argument is (no print of an argument      *)
(* ever is); with m = n no arity fault is raised.                          *)
C5_ArityMismatch ==
  \A f \in Callees, as \in ArgLists :
    (program = TCall(f, as) /\ ParamCount(f) >= 0)
      => IF ParamCount(f) # Len(as)
         THEN /\ out \in {<<>>, <<"<#closure>">>}
              /\ Halted
                   => /\ status = "fault"
                      /\ fault = ArityMismatch(ParamCount(f), Len(as))
                      /\ out = IF f.kind = "Print" THEN <<"<#closure>">> ELSE <<>>
         ELSE Halted => status = "done"

C5_Witness ==
  /\ program = TCall(Id, <<TPrint(TInt(1)), TPrint(TStr("a"))>>)
  /\ status = "fault"
  /\ fault = ArityMismatch(1, 2)
  /\ out = <<>>

(* C6: a conditional whose condition is not a boolean faults with          *)
(* TypeMismatch("boolean") and evaluates neither branch.                   *)
C6_IfNonBoolean ==
  \A c \in Atoms :
    (program = IfProgram(c) /\ c.kind # "Bool" /\ Halted)
      => (status = "fault" /\ fault = TypeMismatch("boolean") /\ out = <<>>)

(* C7: an inner let shadows the outer binding of the same name in its own  *)
(* body only: `let x = a in let x = b in x` is b, while a lookup of x      *)
(* under the outer environment yields a after the inner let was evaluated  *)
(* (`let x = a in (let x = b in x, x)` is (b, a)) and before it (`let x =  *)
(* a in (x, let x = b in x)` is (a, b)); a let of another name keeps the   *)
(* bindings it extends.                                                    *)
C7_EnvExtension ==
  \A a \in Atoms, b \in Atoms :
    /\ (program = ShadowProgram(a, b) /\ Halted)
         => (status = "done" /\ IsValueOf(result, b))
    /\ (program = ShadowThenProgram(a, b) /\ Halted)
         => (status = "done" /\ IsPair(result, b, a))
    /\ (program = ShadowAfterProgram(a, b) /\ Halted)
         => (status = "done" /\ IsPair(result, a, b))
    /\ (program = ExtendProgram(a, b) /\ Halted)
         => (status = "done" /\ IsPair(result, a, b))

C7_Witness ==
  /\ program = ShadowThenProgram(TInt(1), TInt(0))
  /\ status = "done"
  /\ result = VTuple(VNumber(Fin(0)), VNumber(Fin(1)))

(* C8 as claimed: every evaluation that has ended has returned a value or  *)
(* raised one of the three faults.                                         *)
C8_ValueOrFault ==
  Halted => (status = "done" \/ (status = "fault" /\ fault.kind \in FaultKinds))

(* C8 as amended: every evaluation ends, by returning a value, by raising  *)
(* one of the three faults, or by exhausting the host's call stack: it     *)
(* never goes on without nesting calls ever deeper.                        *)
C8_EndsOrOverflows ==
  <>(status = "done" \/ (status = "fault" /\ fault.kind \in FaultKinds)
       \/ status = "overflow")

C8_Witness ==
  /\ program = Omega
  /\ status = "overflow"
  /\ result = NoValue
  /\ fault = NoFault

(* the line print writes for the value of each term of Specials *)
SpecialText(t) ==
  CASE t = TBinary(TInt(1), "Div", TInt(0)) -> "inf"
    [] t = TBinary(TInt(-1), "Div", TInt(0)) -> "-inf"
    [] t = TBinary(TInt(0), "Div", TInt(0)) -> "NaN"
    [] t = TBinary(TInt(0), "Mul", TInt(-1)) -> "-0"
    [] t = TInt(0) -> "0"
    [] t = TInt(2) -> "2"
    [] t = TInt(-2) -> "-2"

(* C9: print(v) returns the value of v and writes one line, its rendering, *)
(* after the output of v: numbers and booleans as text, strings verbatim,  *)
(* closures as <#closure>, tuples as (first, second).                      *)
C9_PrintTransparent ==
  /\ \A v \in Atoms :
       (program = TPrint(v) /\ Halted)
         => (status = "done" /\ IsValueOf(result, v) /\ out = <<AtomText(v)>>)
  /\ \A v \in Specials :
       (program = TPrint(v) /\ Halted)
         => (status = "done" /\ result.kind = "Number" /\ out = <<SpecialText(v)>>)
  /\ \A a \in Atoms, b \in Atoms :
       LET line == "(" \o AtomText(a) \o ", " \o AtomText(b) \o ")"
       IN  /\ (program = TPrint(TTuple(a, b)) /\ Halted)
                => (status = "done" /\ IsPair(result, a, b) /\ out = <<line>>)
           /\ (program = TPrint(TTuple(TPrint(a), TPrint(TPrint(b)))) /\ Halted)
                => /\ status = "done"
                   /\ IsPair(result, a, b)
                   /\ out = <<AtomText(a), AtomText(b), AtomText(b), line>>

C9_Witness ==
  /\ program = TPrint(TTuple(TPrint(TInt(1)), TPrint(TPrint(Id))))
  /\ status = "done"
  /\ out = <<"1", "<#closure>", "<#closure>", "(1, <#closure>)">>

(* the integer q with q <= l / r < q + 1 *)
FloorOf(l, r) ==
  CHOOSE q \in -MaxInt .. MaxInt :
    IF r > 0 THEN q * r <= l /\ l < (q + 1) * r
    ELSE q * r >= l /\ l > (q + 1) * r

(* C10: `l / r` of two integers, r # 0, is the floor of the quotient,      *)
(* rounded toward negative infinity, and a division with an operand that   *)
(* is not a number faults with TypeMismatch.                               *)
C10_FloorDivision ==
  /\ \A l \in -MaxInt .. MaxInt, r \in -MaxInt .. MaxInt :
       (r # 0 /\ program = TBinary(TInt(l), "Div", TInt(r)) /\ Halted)
         => /\ status = "done"
            /\ result.kind = "Number"
            /\ result.n.c \in {"fin", "nzero"}
            /\ result.n.v = FloorOf(l, r)
  /\ \A l \in Atoms, r \in Atoms :
       (program = MixedProgram(l, "Div", r) /\ Halted
          /\ (l.kind # "Int" \/ r.kind # "Int"))
         => (status = "fault" /\ fault.kind = "TypeMismatch")

C10_Witness ==
  /\ program = TBinary(TInt(-7), "Div", TInt(2))
  /\ status = "done"
  /\ result = VNumber(Fin(-4))

=============================================================================
